---- MODULE Spec2Model ----
(***************************************************************************)
(* The deduplicating file store of Amazing-File-Management-System:        *)
(* the File and FileReference tables (models.py), the upload and delete   *)
(* endpoints (views.py) and the reference-count maintenance between them. *)
(*                                                                         *)
(* Each request handler is a process.  A step of a process is one SQL     *)
(* statement of the handler together with the Python code that leads to   *)
(* the next statement.  The storage layer is modelled as the ORM uses it: *)
(*   - a statement is atomic; a plain read takes no lock and sees          *)
(*     committed rows only;                                                *)
(*   - uniqueness constraints are checked by the INSERT, foreign keys by   *)
(*     the COMMIT (DEFERRABLE INITIALLY DEFERRED);                         *)
(*   - select_for_update() and UPDATE take the exclusive lock of the File  *)
(*     row they touch and hold it until the transaction ends; the COMMIT   *)
(*     after the INSERT of a FileReference needs its parent File row not   *)
(*     to be locked by another transaction (the foreign key's share lock); *)
(*   - the last statement of a transaction commits it.                     *)
(***************************************************************************)
EXTENDS Integers, Sequences, FiniteSets, TLC

\* Number of concurrent request handlers.
NumProcs == 2

\* Number of requests served in one behaviour.
MaxRequests == 4

\* Longest content of a hashed stream.
MaxLen == 3

\* read(4096): the size of one read, scaled to the contents above.
ChunkSize == 2

\* Calls of calculate_file_hash on one stream.
MaxCalls == 2

Procs == 1..NumProcs

\* Uploaded names and byte contents (two contents of different sizes).
Names == {"a.txt", "b.txt"}

Contents == {<<1>>, <<2, 1>>}

VARIABLES
    files,      \* the File table: a set of rows
    refs,       \* the FileReference table: a set of rows
    blobs,      \* the storage behind File.file: a set of [key, data]
    locks,      \* row locks on File rows: a set of [file, owner]
    nextId,     \* the next value uuid.uuid4() returns
    started,    \* requests started so far
    pc,         \* pc[p]: the statement handler p executes next
    req,        \* req[p]: the local variables of handler p
    resp,       \* the response returned last, and by which handler
    hist,       \* what has been requested so far (history, read by no action)
    stream      \* the file object calculate_file_hash is called on, and
                \* the locals of the call

vars == <<files, refs, blobs, locks, nextId, started, pc, req, resp, hist,
          stream>>

----------------------------------------------------------------------------
(* models.py: pure functions *)

\* hashlib.sha256 over the chunks fed to it, abstracted to a digest that is
\* collision-free on Contents: folded left to right over the bytes.
RECURSIVE sha256(_, _)
sha256(h, bytes) ==
    IF bytes = <<>> THEN h
    ELSE sha256(h * 3 + Head(bytes), Tail(bytes))

\* calculate_file_hash: seek(0), feed every chunk, hexdigest.
calculate_file_hash(data) == sha256(0, data)

\* File.save: storage_saved recomputed from the instance's reference_count.
SaveStorageSaved(size, reference_count) ==
    IF reference_count > 1 THEN size * (reference_count - 1) ELSE 0

\* A File instance saved without File.save's hashing: content_hash stays
\* null, as the serializer leaves it.
UnhashedFile(pk, key, name, data) ==
    [id |-> pk, file |-> key, original_filename |-> name,
     size |-> Len(data), content_hash |-> 0,
     reference_count |-> 1, storage_saved |-> 0]

\* A new File instance as File.save writes it: content_hash from the file,
\* reference_count at its default of 1.
NewFile(pk, key, name, data) ==
    [id |-> pk, file |-> key, original_filename |-> name,
     size |-> Len(data), content_hash |-> calculate_file_hash(data),
     reference_count |-> 1, storage_saved |-> SaveStorageSaved(Len(data), 1)]

\* update_reference_count: "if new_count < 1: new_count = 1".
Unclamped(n) == n

ClampCount(n) == IF n < 1 THEN 1 ELSE n

\* update_reference_count: the Case/When of the UPDATE.  The condition
\* reference_count__gt=1 is evaluated on the row as it is before the UPDATE.
StorageSavedCase(row, new_count) ==
    IF row.reference_count > 1 THEN row.size * (new_count - 1) ELSE 0

\* The row an UPDATE of update_reference_count leaves.
UpdatedRow(row, new_count) ==
    [row EXCEPT !.reference_count = new_count,
                !.storage_saved = StorageSavedCase(row, new_count)]

\* FileReference.save: "if not self.pk".  The instance carries the pk that
\* the field default uuid.uuid4 gave it when it was constructed.
StateAdding(instance) == instance.adding

NotPk(instance) == instance.pk = 0

\* FileReference(original_file=..., reference_name=...): the id default runs
\* in the constructor.
NewFileReference(pk, file_pk, name) ==
    [pk |-> pk, original_file |-> file_pk, reference_name |-> name,
     adding |-> TRUE]

----------------------------------------------------------------------------
(* Tables and constraints *)

\* What the storage holds for File.file: the bytes written under a key.
Blob(key, data) == [key |-> key, data |-> data]

Keys(store) == {b.key : b \in store}

FileRows(pk) == {f \in files : f.id = pk}

References(file_pk) == {r \in refs : r.original_file = file_pk}

\* File.objects.filter(content_hash=h).first(), ordering -uploaded_at.
FilterFirst(h) ==
    LET found == {f \in files : f.content_hash = h}
    IN  IF found = {} THEN 0
        ELSE (CHOOSE f \in found : \A g \in found : g.id <= f.id).id

\* The constraint of migration 0002, on (content_hash, original_filename).
unique_content_filename(row) ==
    ~ \E f \in files : /\ f.content_hash = row.content_hash
                       /\ f.original_filename = row.original_filename

\* File.Meta.constraints: UniqueConstraint(fields=['content_hash'],
\* condition=Q(content_hash__isnull=False)): rows without a content_hash
\* are outside the index.
unique_content_hash(row) ==
    \/ row.content_hash = 0
    \/ ~ \E f \in files : f.content_hash = row.content_hash

\* A uniqueness that holds per owning File only.
unique_name_per_file(name, file_pk) ==
    ~ \E r \in refs : r.reference_name = name /\ r.original_file = file_pk

\* A name is taken by a reference or by a File's original_filename.
unique_display_name(name, file_pk) ==
    /\ ~ \E r \in refs : r.reference_name = name
    /\ ~ \E f \in files : f.original_filename = name

\* FileReference.reference_name: unique=True.
unique_reference_name(name, file_pk) ==
    ~ \E r \in refs : r.reference_name = name

\* A write that keeps one reference per File (update_or_create on
\* original_file).
ReplaceReference(row) ==
    {r \in refs : r.original_file # row.original_file} \cup {row}

\* Model.save of a new FileReference (objects.create): one INSERT.
InsertReference(row) == refs \cup {row}

\* No row lock at all.
NoLock(p, pk) == TRUE

\* The row lock of File row pk is free for handler p.
LockFree(p, pk) == ~ \E l \in locks : l.file = pk /\ l.owner # p

\* A transaction that ends without releasing its row locks.
StillLocked(p) == locks

Unlocked(p) == {l \in locks : l.owner # p}

----------------------------------------------------------------------------
(* Handlers *)

IdleReq ==
    [op |-> "none", name |-> "", data |-> <<>>, file_pk |-> 0, ref_pk |-> 0,
     current_count |-> 0, new_count |-> 0, change |-> 0, pending |-> {},
     size |-> 0, instance |-> {}]

NoResp ==
    [proc |-> 0, op |-> "none", status |-> 0, type |-> "", count |-> 0,
     error |-> ""]

Response(op, status, type, count, error) ==
    [proc |-> 0, op |-> op, status |-> status, type |-> type,
     count |-> count, error |-> error]

\* Handler p answers r.
Answer(p, r) == resp' = [r EXCEPT !.proc = p]

Busy(p) == \E q \in Procs \ {p} : pc[q] # "idle"

\* The File table once the transaction of handler p has committed: the
\* row its UPDATE wrote, if it ran one, replaces the row of the table.
Committed(p) ==
    IF req[p].pending = {} THEN files
    ELSE (files \ FileRows(req[p].file_pk)) \cup req[p].pending

\* Handler p returns: its transaction ends and its locks are released.
Return(p, r) ==
    /\ pc' = [pc EXCEPT ![p] = "idle"]
    /\ req' = [req EXCEPT ![p] = IdleReq]
    /\ Answer(p, r)
    /\ locks' = Unlocked(p)

\* The handlers hash through File.save; no stream is followed step by step.
NoStream ==
    [data |-> <<>>, pos |-> 0, chunks |-> FALSE, at |-> "idle",
     original_pos |-> 0, h |-> 0, error |-> FALSE, fed |-> 0,
     start |-> 0, results |-> <<>>]

Init ==
    /\ files = {}
    /\ refs = {}
    /\ blobs = {}
    /\ locks = {}
    /\ nextId = 1
    /\ started = 0
    /\ pc = [p \in Procs |-> "idle"]
    /\ req = [p \in Procs |-> IdleReq]
    /\ resp = NoResp
    /\ hist = [nSub |-> [c \in Contents |-> 0],
               names |-> [c \in Contents |-> {}],
               overlap |-> FALSE, other |-> FALSE,
               dec |-> {}, unref |-> {}, inc |-> {}, removed |-> {}]
    /\ stream = NoStream

\* hist records, for the properties only: nSub and names, the submissions
\* per content while every request was a submission; overlap, whether two of
\* them ran at once; other, whether any other request was made; dec, the
\* -1 adjustments applied per File row; unref, the File rows a reference of
\* which was deleted; inc, the +1 adjustments applied per File row; removed,
\* the FileReference rows deleted.

\* The number of update_reference_count(-1) applied to File row pk so far.
Decrements(pk) == Cardinality({d \in hist.dec : d.file = pk})

\* The number of update_reference_count(1) applied to File row pk so far.
Increments(pk) == Cardinality({d \in hist.inc : d.file = pk})

\* The submissions are recorded for as long as every request was one.
Submitted(p, upload) ==
    IF hist.other THEN hist
    ELSE [hist EXCEPT !.nSub[upload.data] = @ + 1,
                      !.names[upload.data] = @ \cup {upload.name},
                      !.overlap = @ \/ Busy(p)]

\* A request that is no submission of content.
NotASubmission ==
    [hist EXCEPT !.other = TRUE,
                 !.nSub = [c \in Contents |-> 0],
                 !.names = [c \in Contents |-> {}],
                 !.overlap = FALSE]

\* An exception leaves the handler.  In FileViewSet.create it is caught by
\* the "except Exception" around FileReference.objects.create and answered
\* 409; out of FileReference.delete nothing catches it and the answer is 500.
Raise(p, error) ==
    Return(p, IF req[p].op = "create"
              THEN Response("create", 409, "duplicate", 0, error)
              ELSE Response(req[p].op, 500, "error", 0, error))

\* FileViewSet.create without request.FILES['file'].
create_no_file(p) ==
    /\ pc[p] = "idle"
    /\ started < MaxRequests
    /\ started' = started + 1
    /\ Answer(p, Response("create", 400, "No file provided", 0, ""))
    /\ hist' = NotASubmission
    /\ UNCHANGED <<files, refs, blobs, locks, nextId, pc, req>>
    /\ UNCHANGED stream

\* FileViewSet.create up to the branch on existing_file: the hash, the
\* lookup by content_hash and, for a duplicate, the construction of the
\* FileReference instance and the "if not self.pk" of its save().
create(p) ==
    /\ pc[p] = "idle"
    /\ started < MaxRequests
    /\ started' = started + 1
    /\ \E name \in Names, data \in Contents :
         LET upload == [name |-> name, data |-> data]
             existing_file == FilterFirst(calculate_file_hash(data))
             instance == NewFileReference(nextId, existing_file, name)
         IN  /\ hist' = Submitted(p, upload)
             /\ IF existing_file # 0
                THEN /\ req' = [req EXCEPT ![p] =
                                   [IdleReq EXCEPT !.op = "create",
                                                   !.name = name,
                                                   !.data = data,
                                                   !.file_pk = existing_file,
                                                   !.ref_pk = instance.pk,
                                                   !.change = 1]]
                     /\ nextId' = nextId + 1
                     /\ pc' = [pc EXCEPT ![p] =
                                  IF NotPk(instance) THEN "urc_read"
                                  ELSE "reference_insert"]
                ELSE /\ req' = [req EXCEPT ![p] =
                                   [IdleReq EXCEPT !.op = "create",
                                                   !.name = name,
                                                   !.data = data]]
                     /\ nextId' = nextId
                     /\ pc' = [pc EXCEPT ![p] = "create_file"]
    /\ UNCHANGED <<files, refs, blobs, locks, resp>>
    /\ UNCHANGED stream

\* update_reference_count, line 97: read the current count and compute the
\* clamped new count.  values(...)[0] raises when the row is gone.
urc_read(p) ==
    /\ pc[p] = "urc_read"
    /\ LET rows == FileRows(req[p].file_pk)
       IN  IF rows = {}
           THEN Raise(p, "DoesNotExist")
           ELSE LET current_count == (CHOOSE f \in rows : TRUE).reference_count
                IN  /\ req' = [req EXCEPT
                                  ![p].current_count = current_count,
                                  ![p].new_count =
                                      ClampCount(current_count + req[p].change)]
                    /\ pc' = [pc EXCEPT ![p] = "urc_update"]
                    /\ UNCHANGED <<resp, locks>>
    /\ UNCHANGED <<files, refs, blobs, nextId, started, hist>>
    /\ UNCHANGED stream

\* update_reference_count, lines 105-115: the UPDATE (which locks the row
\* until the transaction ends) and refresh_from_db.  reference_count is a
\* PositiveIntegerField: the column refuses a negative value.  The row the
\* UPDATE writes is seen by its own transaction only; it replaces the row
\* of the table when the transaction commits.
urc_update(p) ==
    /\ pc[p] = "urc_update"
    /\ LockFree(p, req[p].file_pk)
    /\ LET rows == FileRows(req[p].file_pk)
           row == CHOOSE f \in rows : TRUE
       IN  IF rows = {}
           THEN /\ Raise(p, "DoesNotExist")
                /\ UNCHANGED <<files, hist>>
           ELSE IF req[p].new_count < 0
           THEN /\ Raise(p, "IntegrityError")
                /\ UNCHANGED <<files, hist>>
           ELSE /\ files' = files
                /\ locks' = locks \cup
                               {[file |-> req[p].file_pk, owner |-> p]}
                /\ req' = [req EXCEPT ![p].pending =
                              {UpdatedRow(row, req[p].new_count)}]
                /\ pc' = [pc EXCEPT ![p] =
                             IF req[p].op = "create" THEN "reference_insert"
                             ELSE IF req[p].op = "adjust" THEN "adjust_return"
                             ELSE "reference_delete"]
                /\ hist' = IF req[p].change < 0
                           THEN [hist EXCEPT !.dec = @ \cup
                                    {[file |-> req[p].file_pk,
                                      k |-> Decrements(req[p].file_pk) + 1]}]
                           ELSE [hist EXCEPT !.inc = @ \cup
                                    {[file |-> req[p].file_pk,
                                      k |-> Increments(req[p].file_pk) + 1]}]
                /\ UNCHANGED resp
    /\ UNCHANGED <<refs, blobs, nextId, started>>
    /\ UNCHANGED stream

\* reference_name's unique index while an INSERT is not yet committed: the
\* INSERT of the same name by another transaction waits for its end.
NameFree(p, name) ==
    ~ \E q \in Procs \ {p} :
         pc[q] = "reference_commit" /\ req[q].name = name

\* FileReference.save -> super().save(): the INSERT of the reference row.
\* reference_name is checked at once: against a committed row of that name
\* the IntegrityError rolls the savepoint of FileReference.save back and is
\* answered 409.  The inserted row is seen by no other transaction until
\* the COMMIT.
reference_insert(p) ==
    /\ pc[p] = "reference_insert"
    /\ LET parent == FileRows(req[p].file_pk)
       IN  IF ~ unique_reference_name(req[p].name, req[p].file_pk)
           THEN /\ files' = files
                /\ Raise(p, "IntegrityError:reference_name")
           ELSE /\ NameFree(p, req[p].name)
                /\ files' = files
                /\ pc' = [pc EXCEPT ![p] = "reference_commit"]
                /\ UNCHANGED <<req, resp, locks>>
    /\ UNCHANGED <<refs, blobs, nextId, started, hist>>
    /\ UNCHANGED stream

\* The response of FileViewSet.create and the COMMIT of its transaction.
\* The foreign key to File is checked by the COMMIT (DEFERRABLE INITIALLY
\* DEFERRED), which waits for the lock of the parent row: when the parent
\* is gone the IntegrityError leaves create's @transaction.atomic after its
\* try blocks, nothing catches it and the answer is 500; the transaction is
\* rolled back.
reference_commit(p) ==
    /\ pc[p] = "reference_commit"
    /\ LockFree(p, req[p].file_pk)
    /\ LET parent == FileRows(req[p].file_pk)
       IN  IF parent = {}
           THEN /\ refs' = refs
                /\ files' = files
                /\ Return(p, Response("create", 500, "error", 0,
                                      "IntegrityError:original_file"))
           ELSE /\ refs' = InsertReference([id |-> req[p].ref_pk,
                                            original_file |-> req[p].file_pk,
                                            reference_name |-> req[p].name])
                /\ files' = Committed(p)
                /\ Return(p, Response("create", 201, "reference", 0, ""))
    /\ UNCHANGED <<blobs, nextId, started, hist>>
    /\ UNCHANGED stream

\* FileViewSet.create, "Create new file": serializer.save() -> File.save().
\* FileField.pre_save writes the blob before the INSERT.  When the INSERT
\* violates unique_content_hash the transaction is marked for rollback, the
\* lookup in "except IntegrityError" cannot run in it, and the request ends
\* with a server error.
create_file(p) ==
    /\ pc[p] = "create_file"
    /\ LET row == NewFile(nextId, nextId + 1, req[p].name, req[p].data)
       IN  /\ nextId' = nextId + 2
           /\ blobs' = blobs \cup {Blob(row.file, req[p].data)}
           /\ IF unique_content_hash(row)
              THEN /\ files' = files \cup {row}
                   /\ Return(p, Response("create", 201, "original", 0, ""))
              ELSE /\ files' = files
                   /\ Return(p, Response("create", 500, "error", 0,
                                         "IntegrityError:content_hash"))
    /\ UNCHANGED <<refs, started, hist>>
    /\ UNCHANGED stream

\* FileViewSet.destroy: "if reference_count > 0".
AtLeastTwoReferences(reference_count) == reference_count > 1

RefusesAlways(reference_count) == reference_count >= 0

HasReferences(reference_count) == reference_count > 0

\* FileViewSet.destroy: self.get_object(), 404 when no row has the pk.
destroy_get_object(p) ==
    /\ pc[p] = "idle"
    /\ started < MaxRequests
    /\ started' = started + 1
    /\ hist' = NotASubmission
    /\ \E pk \in {f.id : f \in files} \cup {nextId} :
         IF FileRows(pk) = {}
         THEN /\ Answer(p, Response("destroy", 404, "Not found", 0, ""))
              /\ UNCHANGED <<pc, req>>
         ELSE /\ req' = [req EXCEPT ![p] =
                            [IdleReq EXCEPT !.op = "destroy", !.file_pk = pk]]
              /\ pc' = [pc EXCEPT ![p] = "destroy_lock"]
              /\ UNCHANGED resp
    /\ UNCHANGED <<files, refs, blobs, locks, nextId>>
    /\ UNCHANGED stream

\* FileViewSet.destroy: File.objects.filter(pk=...).select_for_update().get(),
\* File.DoesNotExist answered 404.
destroy_lock(p) ==
    /\ pc[p] = "destroy_lock"
    /\ LockFree(p, req[p].file_pk)
    /\ IF FileRows(req[p].file_pk) = {}
       THEN Return(p, Response("destroy", 404, "Not found", 0, "DoesNotExist"))
       ELSE /\ locks' = locks \cup {[file |-> req[p].file_pk, owner |-> p]}
            /\ pc' = [pc EXCEPT ![p] = "destroy_count"]
            /\ UNCHANGED <<req, resp>>
    /\ UNCHANGED <<files, refs, blobs, nextId, started, hist>>
    /\ UNCHANGED stream

\* FileViewSet.destroy: instance.references.count() and the refusal.
destroy_count(p) ==
    /\ pc[p] = "destroy_count"
    /\ LET reference_count == Cardinality(References(req[p].file_pk))
       IN  IF HasReferences(reference_count)
           THEN Return(p, Response("destroy", 409, "Cannot delete",
                                   reference_count, ""))
           ELSE /\ pc' = [pc EXCEPT ![p] = "destroy_delete"]
                /\ UNCHANGED <<req, resp, locks>>
    /\ UNCHANGED <<files, refs, blobs, nextId, started, hist>>
    /\ UNCHANGED stream

\* FileViewSet.destroy: perform_destroy -> File.delete().  The collector
\* follows on_delete=CASCADE to the FileReference rows; the FileField's blob
\* is not removed from storage.
destroy_delete(p) ==
    /\ pc[p] = "destroy_delete"
    /\ files' = files \ FileRows(req[p].file_pk)
    /\ refs' = refs \ References(req[p].file_pk)
    /\ Return(p, Response("destroy", 204, "", 0, ""))
    /\ UNCHANGED <<blobs, nextId, started, hist>>
    /\ UNCHANGED stream

\* FileReferenceViewSet.destroy: get_object(), then FileReference.delete up
\* to the call of update_reference_count(-1).
reference_get_object(p) ==
    /\ pc[p] = "idle"
    /\ started < MaxRequests
    /\ started' = started + 1
    /\ hist' = NotASubmission
    /\ \E pk \in {r.id : r \in refs} \cup {nextId} :
         LET rows == {r \in refs : r.id = pk}
         IN  IF rows = {}
             THEN /\ Answer(p, Response("reference_destroy", 404,
                                         "Not found", 0, ""))
                  /\ UNCHANGED <<pc, req>>
             ELSE LET instance == CHOOSE r \in rows : TRUE
                  IN  /\ req' = [req EXCEPT ![p] =
                                    [IdleReq EXCEPT
                                        !.op = "reference_destroy",
                                        !.name = instance.reference_name,
                                        !.file_pk = instance.original_file,
                                        !.ref_pk = pk,
                                        !.change = -1]]
                      /\ pc' = [pc EXCEPT ![p] = "urc_read"]
                      /\ UNCHANGED resp
    /\ UNCHANGED <<files, refs, blobs, locks, nextId>>
    /\ UNCHANGED stream

\* FileReference.delete -> super().delete(): the DELETE of the reference row
\* (of no row when it is gone already), the COMMIT of FileReference.delete's
\* transaction, then 204.
reference_delete(p) ==
    /\ pc[p] = "reference_delete"
    /\ LET rows == {r \in refs : r.id = req[p].ref_pk}
       IN  /\ refs' = refs \ rows
           /\ hist' = IF rows = {} THEN hist
                      ELSE [hist EXCEPT !.unref = @ \cup {req[p].file_pk},
                                        !.removed = @ \cup rows]
    /\ files' = Committed(p)
    /\ Return(p, Response("reference_destroy", 204, "", 0, ""))
    /\ UNCHANGED <<blobs, nextId, started>>
    /\ UNCHANGED stream

Next ==
    \E p \in Procs :
        \/ create_no_file(p)
        \/ create(p)
        \/ urc_read(p)
        \/ urc_update(p)
        \/ reference_insert(p)
        \/ reference_commit(p)
        \/ create_file(p)
        \/ destroy_get_object(p)
        \/ destroy_lock(p)
        \/ destroy_count(p)
        \/ destroy_delete(p)
        \/ reference_get_object(p)
        \/ reference_delete(p)

Spec == Init /\ [][Next]_vars

\* The statements of a request that has started.  The server runs every
\* handler to its response: a statement that can run is run in the end,
\* and one that waits for a row lock runs once the lock is free.
Continue(p) ==
    \/ urc_read(p)
    \/ urc_update(p)
    \/ reference_insert(p)
    \/ reference_commit(p)
    \/ create_file(p)
    \/ destroy_lock(p)
    \/ destroy_count(p)
    \/ destroy_delete(p)
    \/ reference_delete(p)

\* The state an upload of new content as a.txt and a second upload of the
\* same bytes as b.txt leave: one File row with one reference.
InitLive ==
    \E data \in Contents :
        LET row == NewFile(1, 2, "a.txt", data)
            reference == [id |-> 3, original_file |-> row.id,
                          reference_name |-> "b.txt"]
        IN  /\ files = {row}
            /\ refs = {reference}
            /\ blobs = {Blob(row.file, data)}
            /\ locks = {}
            /\ nextId = 4
            /\ started = 2
            /\ pc = [p \in Procs |-> "idle"]
            /\ req = [p \in Procs |-> IdleReq]
            /\ resp = [Response("create", 201, "reference", 0, "")
                          EXCEPT !.proc = 1]
            /\ hist = [nSub |-> [c \in Contents |->
                                    IF c = data THEN 2 ELSE 0],
                       names |-> [c \in Contents |->
                                     IF c = data THEN {"a.txt", "b.txt"}
                                     ELSE {}],
                       overlap |-> FALSE, other |-> FALSE,
                       dec |-> {}, unref |-> {}, inc |-> {}, removed |-> {}]
            /\ stream = NoStream

SpecLive ==
    /\ InitLive
    /\ [][Next]_vars
    /\ \A p \in Procs : WF_vars(Continue(p))

----------------------------------------------------------------------------
(* File.update_reference_count called on its own, by concurrent callers *)

\* One File row as an upload leaves it.
InitAdjust ==
    /\ \E data \in Contents :
          /\ files = {NewFile(1, 2, "a.txt", data)}
          /\ blobs = {Blob(2, data)}
    /\ refs = {}
    /\ locks = {}
    /\ nextId = 3
    /\ started = 0
    /\ pc = [p \in Procs |-> "idle"]
    /\ req = [p \in Procs |-> IdleReq]
    /\ resp = NoResp
    /\ hist = [nSub |-> [c \in Contents |-> 0],
               names |-> [c \in Contents |-> {}],
               overlap |-> FALSE, other |-> TRUE,
               dec |-> {}, unref |-> {}, inc |-> {}, removed |-> {}]
    /\ stream = NoStream

\* file.update_reference_count(change), entering its @transaction.atomic.
adjust_call(p) ==
    /\ pc[p] = "idle"
    /\ started < MaxRequests
    /\ started' = started + 1
    /\ \E f \in files, change \in {1, -1} :
         req' = [req EXCEPT ![p] =
                    [IdleReq EXCEPT !.op = "adjust", !.file_pk = f.id,
                                    !.change = change]]
    /\ pc' = [pc EXCEPT ![p] = "urc_read"]
    /\ UNCHANGED <<files, refs, blobs, locks, nextId, resp, hist>>
    /\ UNCHANGED stream

\* update_reference_count returns: its transaction commits.
adjust_return(p) ==
    /\ pc[p] = "adjust_return"
    /\ files' = Committed(p)
    /\ Return(p, Response("adjust", 200, "", req[p].new_count, ""))
    /\ UNCHANGED <<refs, blobs, nextId, started, hist>>
    /\ UNCHANGED stream

NextAdjust ==
    \E p \in Procs :
        \/ adjust_call(p)
        \/ urc_read(p)
        \/ urc_update(p)
        \/ adjust_return(p)

SpecAdjust == InitAdjust /\ [][NextAdjust]_vars

----------------------------------------------------------------------------
(* calculate_file_hash followed statement by statement on one file object *)

Bytes == {1, 2}

Streams == UNION {[1..n -> Bytes] : n \in 0..MaxLen}

\* File.DEFAULT_CHUNK_SIZE, the size chunks() reads with: larger than 4096.
DEFAULT_CHUNK_SIZE == 2 * ChunkSize

\* The position is left where it is.
NoSeek(s) == s

\* "file.seek(0)" of the try block.
SeekStart(s) == [s EXCEPT !.pos = 0]

\* The position is left where reading stopped.
NoRestore(s) == s

\* "finally: file.seek(original_pos)".
FinallySeek(s) == [s EXCEPT !.pos = s.original_pos]

\* file.read(n): the bytes from the position on, n at most; past the end
\* there are none.
Read(s, n) ==
    SubSeq(s.data, s.pos + 1,
           IF s.pos + n < Len(s.data) THEN s.pos + n ELSE Len(s.data))

\* sha256_hash.update(chunk) after a read that returned chunk.
Update(s, chunk) ==
    [s EXCEPT !.h = sha256(s.h, chunk),
              !.pos = s.pos + Len(chunk),
              !.fed = s.fed + Len(chunk)]

\* A file object of any content, at any position (one past the end
\* included), with or without a chunks method.
InitHash ==
    /\ files = {}
    /\ refs = {}
    /\ blobs = {}
    /\ locks = {}
    /\ nextId = 1
    /\ started = 0
    /\ pc = [p \in Procs |-> "idle"]
    /\ req = [p \in Procs |-> IdleReq]
    /\ resp = NoResp
    /\ hist = [nSub |-> [c \in Contents |-> 0],
               names |-> [c \in Contents |-> {}],
               overlap |-> FALSE, other |-> TRUE,
               dec |-> {}, unref |-> {}, inc |-> {}, removed |-> {}]
    /\ \E data \in Streams, pos \in 0..(MaxLen + 1), chunks \in BOOLEAN :
          /\ pos <= Len(data) + 1
          /\ stream = [NoStream EXCEPT !.data = data, !.pos = pos,
                                       !.chunks = chunks, !.start = pos]

\* sha256_hash = hashlib.sha256(); original_pos = file.tell().
hash_call ==
    /\ stream.at = "idle"
    /\ Len(stream.results) < MaxCalls
    /\ stream' = [stream EXCEPT !.h = 0, !.original_pos = stream.pos,
                                !.error = FALSE, !.fed = 0, !.at = "seek"]
    /\ UNCHANGED <<files, refs, blobs, locks, nextId, started, pc, req, resp,
                   hist>>

\* try: file.seek(0), then the branch on hasattr(file, 'chunks').
hash_seek ==
    /\ stream.at = "seek"
    /\ stream' = [SeekStart(stream) EXCEPT
                     !.at = IF stream.chunks THEN "chunks" ELSE "read"]
    /\ UNCHANGED <<files, refs, blobs, locks, nextId, started, pc, req, resp,
                   hist>>

\* "for chunk in file.chunks()": the iterator starts by seeking to 0.
hash_chunks ==
    /\ stream.at = "chunks"
    /\ stream' = [stream EXCEPT !.pos = 0, !.at = "chunk"]
    /\ UNCHANGED <<files, refs, blobs, locks, nextId, started, pc, req, resp,
                   hist>>

\* One iteration of "for chunk in file.chunks()": the iterator reads
\* DEFAULT_CHUNK_SIZE bytes and ends on an empty read.
hash_chunk ==
    /\ stream.at = "chunk"
    /\ LET chunk == Read(stream, DEFAULT_CHUNK_SIZE)
       IN  stream' = IF chunk = <<>> THEN [stream EXCEPT !.at = "finally"]
                     ELSE Update(stream, chunk)
    /\ UNCHANGED <<files, refs, blobs, locks, nextId, started, pc, req, resp,
                   hist>>

\* One iteration of "while True": chunk = file.read(4096); break when it is
\* empty, else update.
hash_read ==
    /\ stream.at = "read"
    /\ LET chunk == Read(stream, ChunkSize)
       IN  stream' = IF chunk = <<>> THEN [stream EXCEPT !.at = "finally"]
                     ELSE Update(stream, chunk)
    /\ UNCHANGED <<files, refs, blobs, locks, nextId, started, pc, req, resp,
                   hist>>

\* A read raises (an I/O error): control passes to the finally block with
\* the exception in flight.
hash_read_error ==
    /\ stream.at \in {"chunk", "read"}
    /\ stream' = [stream EXCEPT !.error = TRUE, !.at = "finally"]
    /\ UNCHANGED <<files, refs, blobs, locks, nextId, started, pc, req, resp,
                   hist>>

\* finally: file.seek(original_pos); then "return sha256_hash.hexdigest()",
\* or the exception propagates.
hash_finally ==
    /\ stream.at = "finally"
    /\ stream' = [FinallySeek(stream) EXCEPT
                     !.at = "idle",
                     !.results = Append(@, [raised |-> stream.error,
                                            digest |-> IF stream.error THEN 0
                                                       ELSE stream.h,
                                            fed |-> stream.fed])]
    /\ UNCHANGED <<files, refs, blobs, locks, nextId, started, pc, req, resp,
                   hist>>

NextHash ==
    \/ hash_call
    \/ hash_seek
    \/ hash_chunks
    \/ hash_chunk
    \/ hash_read
    \/ hash_read_error
    \/ hash_finally

SpecHash == InitHash /\ [][NextHash]_vars

----------------------------------------------------------------------------
(* PUT and PATCH /files/<id>/: the update and partial_update operations   *)
(* FileViewSet has as a ModelViewSet, through FileSerializer and File.save *)

\* A value of "size" a request can carry: none of the uploaded sizes.
UpdateSizes == {MaxLen}

\* ModelSerializer.update: setattr for every validated field.  The fields
\* FileSerializer.Meta leaves writable are file, original_filename and size
\* (file_type is not modelled); "" , 0 and <<>> stand for a field the
\* request does not carry.  A new file is stored under the key new_key.
SetAttrs(instance, name, size, data, new_key) ==
    [instance EXCEPT
        !.original_filename = IF name = "" THEN @ ELSE name,
        !.size = IF size = 0 THEN @ ELSE size,
        !.file = IF data = <<>> THEN @ ELSE new_key]

\* File.save on an instance: content_hash computed only "if not
\* self.content_hash", storage_saved recomputed from the instance.
SavedFile(instance, bytes) ==
    [instance EXCEPT
        !.content_hash = IF instance.content_hash = 0
                         THEN calculate_file_hash(bytes) ELSE @,
        !.storage_saved = SaveStorageSaved(instance.size,
                                           instance.reference_count)]

\* The bytes stored for a File row.
StoredBytes(store, row) == (CHOOSE b \in store : b.key = row.file).data

\* UpdateModelMixin.update: instance = self.get_object() (404 when there is
\* no such File), then the serializer validates the request's fields.
update_get_object(p) ==
    /\ pc[p] = "idle"
    /\ started < MaxRequests
    /\ started' = started + 1
    /\ hist' = NotASubmission
    /\ \E pk \in {f.id : f \in files} \cup {nextId},
          name \in Names \cup {""},
          size \in UpdateSizes \cup {0},
          data \in Contents \cup {<<>>} :
         IF FileRows(pk) = {}
         THEN /\ Answer(p, Response("update", 404, "Not found", 0, ""))
              /\ UNCHANGED <<pc, req>>
         ELSE /\ req' = [req EXCEPT ![p] =
                            [IdleReq EXCEPT !.op = "update", !.file_pk = pk,
                                            !.name = name, !.size = size,
                                            !.data = data,
                                            !.instance = FileRows(pk)]]
              /\ pc' = [pc EXCEPT ![p] = "update_save"]
              /\ UNCHANGED resp
    /\ UNCHANGED <<files, refs, blobs, locks, nextId>>
    /\ UNCHANGED stream

\* perform_update -> serializer.save() -> File.save(), up to the statement
\* it sends: content_hash and storage_saved as File.save sets them, and
\* FileField.pre_save, which writes a new file to the storage.
update_save(p) ==
    /\ pc[p] = "update_save"
    /\ LET loaded == CHOOSE f \in req[p].instance : TRUE
           instance == SetAttrs(loaded, req[p].name, req[p].size,
                                req[p].data, nextId)
           store == IF req[p].data = <<>> THEN blobs
                    ELSE blobs \cup {Blob(nextId, req[p].data)}
       IN  /\ blobs' = store
           /\ nextId' = IF req[p].data = <<>> THEN nextId ELSE nextId + 1
           /\ req' = [req EXCEPT ![p].instance =
                         {SavedFile(instance, StoredBytes(store, instance))}]
    /\ pc' = [pc EXCEPT ![p] = "update_update"]
    /\ UNCHANGED <<files, refs, locks, started, resp, hist>>
    /\ UNCHANGED stream

\* Model.save: the UPDATE of every column of the row from the instance, a
\* statement of its own (the request runs in no transaction).  When it
\* matches no row, Model.save goes on to INSERT the instance.
update_update(p) ==
    /\ pc[p] = "update_update"
    /\ LockFree(p, req[p].file_pk)
    /\ LET rows == FileRows(req[p].file_pk)
       IN  IF rows # {}
           THEN /\ files' = (files \ rows) \cup req[p].instance
                /\ Return(p, Response("update", 200, "", 0, ""))
           ELSE /\ files' = files
                /\ pc' = [pc EXCEPT ![p] = "update_insert"]
                /\ UNCHANGED <<req, resp, locks>>
    /\ UNCHANGED <<refs, blobs, nextId, started, hist>>
    /\ UNCHANGED stream

\* Model.save: the INSERT after an UPDATE that matched no row.  The primary
\* key and unique_content_hash are checked; the IntegrityError is caught by
\* nothing and the answer is 500.
update_insert(p) ==
    /\ pc[p] = "update_insert"
    /\ LET row == CHOOSE f \in req[p].instance : TRUE
       IN  IF FileRows(row.id) = {} /\ unique_content_hash(row)
           THEN /\ files' = files \cup {row}
                /\ Return(p, Response("update", 200, "", 0, ""))
           ELSE /\ files' = files
                /\ Raise(p, IF FileRows(row.id) # {} THEN "IntegrityError:id"
                            ELSE "IntegrityError:content_hash")
    /\ UNCHANGED <<refs, blobs, nextId, started, hist>>
    /\ UNCHANGED stream

NextUpdate ==
    \/ Next
    \/ \E p \in Procs :
          \/ update_get_object(p)
          \/ update_save(p)
          \/ update_update(p)
          \/ update_insert(p)

SpecUpdate == Init /\ [][NextUpdate]_vars

----------------------------------------------------------------------------
(* Properties *)

\* No request is in progress: every transaction has committed.
Quiet == \A p \in Procs : pc[p] = "idle"

FilesOf(data) == {f \in files : f.content_hash = calculate_file_hash(data)}

\* Every request so far was a submission of content c, under pairwise
\* distinct names.
OnlyDistinctSubmits(c) ==
    /\ ~ hist.other
    /\ hist.nSub[c] >= 1
    /\ Cardinality(hist.names[c]) = hist.nSub[c]
    /\ \A d \in Contents \ {c} : hist.nSub[d] = 0

\* C1: once every operation has committed, each File row has
\* reference_count = 1 + the number of FileReference rows pointing to it.
C1_CountMatchesReferenceRows ==
    Quiet => \A f \in files :
                f.reference_count = 1 + Cardinality(References(f.id))

\* C2: every File row of the table (every committed row) has storage_saved
\* = size * (reference_count - 1) when reference_count > 1 and 0 otherwise.
C2_StorageSavedDerived ==
    \A f \in files :
        f.storage_saved = IF f.reference_count > 1
                          THEN f.size * (f.reference_count - 1)
                          ELSE 0

\* C3: at most one File row exists per content digest, whatever the
\* interleaving of the submissions.
C3_OneFilePerDigest ==
    \A f, g \in files : f.content_hash = g.content_hash => f.id = g.id

\* Two submissions of the same new content both passed the lookup; the
\* second INSERT was refused.
C3_Witness ==
    /\ resp.error = "IntegrityError:content_hash"
    /\ files # {}

\* C4: after N sequential submissions of one content under N distinct names
\* there is one File of that digest with N-1 references,
\* reference_count = N and storage_saved = size * (N-1).
C4_SequentialSubmissions ==
    \A c \in Contents :
        (Quiet /\ ~ hist.overlap /\ OnlyDistinctSubmits(c)) =>
            /\ Cardinality(FilesOf(c)) = 1
            /\ \A f \in FilesOf(c) :
                 /\ Cardinality(References(f.id)) = hist.nSub[c] - 1
                 /\ f.reference_count = hist.nSub[c]
                 /\ f.storage_saved = f.size * (hist.nSub[c] - 1)

\* C5: after M concurrent submissions of one new content under distinct
\* names there is one File and M-1 references of that digest, and no
\* submission was answered with an error.
C5_ConcurrentSubmissions ==
    \A c \in Contents :
        (Quiet /\ OnlyDistinctSubmits(c)) =>
            /\ Cardinality(FilesOf(c)) = 1
            /\ \A f \in FilesOf(c) :
                 Cardinality(References(f.id)) = hist.nSub[c] - 1
            /\ resp.op = "create" => resp.status = 201

\* C6: a deleteFile that counts k > 0 references answers 409 carrying k and
\* changes no File row, no FileReference row and no blob.
C6_DeleteRefusedWithReferences ==
    [][\A p \in Procs :
          LET k == Cardinality(References(req[p].file_pk))
          IN  (pc[p] = "destroy_count" /\ pc'[p] # "destroy_count" /\ k > 0)
              => /\ pc'[p] = "idle"
                 /\ resp'.status = 409
                 /\ resp'.count = k
                 /\ files' = files
                 /\ refs' = refs
                 /\ blobs' = blobs]_vars

\* A deleteFile was refused and the rows it counted are still there.
C6_Witness ==
    /\ resp.op = "destroy"
    /\ resp.status = 409
    /\ resp.count > 0
    /\ \E f \in files : Cardinality(References(f.id)) = resp.count

\* C8: a File all of whose references were removed by deleteReference has
\* reference_count = 1 and storage_saved = 0, and a deleteFile that then
\* finds no reference goes on to remove the row and answers 204.
C8_DeleteAfterReferencesRemoved ==
    /\ [](\A f \in files :
             (f.id \in hist.unref /\ References(f.id) = {}) =>
                 (f.reference_count = 1 /\ f.storage_saved = 0))
    /\ [][\A p \in Procs :
             /\ (/\ pc[p] = "destroy_count"
                 /\ pc'[p] # "destroy_count"
                 /\ req[p].file_pk \in hist.unref
                 /\ References(req[p].file_pk) = {})
                => pc'[p] = "destroy_delete"
             /\ (/\ pc[p] = "destroy_delete"
                 /\ pc'[p] # "destroy_delete"
                 /\ req[p].file_pk \in hist.unref)
                => /\ resp'.status = 204
                   /\ ~ \E f \in files' : f.id = req[p].file_pk]_vars

\* Upload, upload again, delete the reference, delete the File: no row left.
C8_Witness ==
    /\ hist.unref # {}
    /\ files = {}
    /\ refs = {}
    /\ resp.op = "destroy"
    /\ resp.status = 204

\* C9: reference_count >= 1 for every File row in every reachable state.
C9_CountFloor == \A f \in files : f.reference_count >= 1

\* Two -1 adjustments were applied to one File row.
C9_Witness ==
    \E f \in files : Decrements(f.id) >= 2 /\ f.reference_count = 1

\* C10: a submission of existing content under a name that an existing
\* FileReference has answers 409 and changes neither table.
C10_NameClashLeavesState ==
    [][\A p \in Procs :
          (/\ pc[p] = "reference_insert"
           /\ pc'[p] # "reference_insert"
           /\ \E r \in refs : r.reference_name = req[p].name)
          => /\ resp'.status = 409
             /\ resp'.type = "duplicate"
             /\ files' = files
             /\ refs' = refs
             /\ blobs' = blobs]_vars

\* A submission was refused for its reference name.
C10_Witness ==
    /\ resp.status = 409
    /\ resp.error = "IntegrityError:reference_name"
    /\ refs # {}

\* The counts that a +1 adjustments and b -1 adjustments, applied one after
\* another in some order to a count c, can leave.
RECURSIVE SerialCounts(_, _, _)
SerialCounts(c, a, b) ==
    IF a = 0 /\ b = 0 THEN {c}
    ELSE (IF a > 0 THEN SerialCounts(c + 1, a - 1, b) ELSE {})
         \cup (IF b > 0
               THEN SerialCounts(IF c - 1 < 1 THEN 1 ELSE c - 1, a, b - 1)
               ELSE {})

\* C11: when concurrent adjustments of one File have all committed, its
\* reference_count is what applying them one after another in some order
\* to the initial count of 1 leaves.
C11_NoLostUpdate ==
    Quiet => \A f \in files :
                f.reference_count \in
                    SerialCounts(1, Increments(f.id), Decrements(f.id))

\* C12: no FileReference row points to a deleted File, and no step of a
\* deleteFile, successful or refused, changes the set of FileReference rows.
C12_NoDanglingNoCascade ==
    /\ [](\A r \in refs : FileRows(r.original_file) # {})
    /\ [][\A p \in Procs :
             (/\ pc[p] \in {"destroy_lock", "destroy_count", "destroy_delete"}
              /\ pc'[p] # pc[p])
             => refs' = refs]_vars

\* A File was deleted while a submission that had looked it up was waiting
\* to commit its reference; the foreign-key check then found no parent row.
C12_Witness ==
    /\ resp.op = "create"
    /\ resp.status = 500
    /\ resp.error = "IntegrityError:original_file"
    /\ refs = {}

\* C13: a submission answered 201 writes one row.  As an original it adds
\* one File row and leaves the FileReference rows alone; as a reference it
\* adds one FileReference row, adds or removes no File row, and changes at
\* most reference_count and storage_saved of File rows.
C13_OneRowPerSubmit ==
    [][\A p \in Procs :
          /\ (pc[p] = "create_file" /\ pc'[p] = "idle" /\ resp'.status = 201)
             => /\ refs' = refs
                /\ files \subseteq files'
                /\ Cardinality(files' \ files) = 1
          /\ (pc[p] = "reference_commit" /\ pc'[p] = "idle"
              /\ resp'.status = 201)
             => /\ refs \subseteq refs'
                /\ Cardinality(refs' \ refs) = 1
                /\ Cardinality(files') = Cardinality(files)
                /\ \A f \in files :
                     \E g \in files' :
                        /\ [g EXCEPT !.reference_count = f.reference_count,
                                     !.storage_saved = f.storage_saved] = f
                        /\ (f.id # req[p].file_pk => g = f)]_vars

\* A reference was created beside an existing one.
C13_Witness ==
    /\ resp.op = "create"
    /\ resp.status = 201
    /\ resp.type = "reference"
    /\ Cardinality(refs) >= 2

\* C14: when the new-file branch of a submission writes its row and no File
\* row has the digest of the submitted bytes, the answer is 201 "original"
\* and the one new File row has reference_count 1, storage_saved 0 and a
\* non-null content_hash equal to the digest of the bytes.
C14_CreatedRow ==
    [][\A p \in Procs :
          (/\ pc[p] = "create_file"
           /\ pc'[p] = "idle"
           /\ FilesOf(req[p].data) = {})
          => /\ resp'.status = 201
             /\ resp'.type = "original"
             /\ \E row \in files' :
                  /\ files' \ files = {row}
                  /\ row.reference_count = 1
                  /\ row.storage_saved = 0
                  /\ row.content_hash # 0
                  /\ row.content_hash = calculate_file_hash(req[p].data)
                  /\ row.original_filename = req[p].name
                  /\ row.size = Len(req[p].data)]_vars

\* A second content was stored beside a first one.
C14_Witness ==
    /\ resp.op = "create"
    /\ resp.status = 201
    /\ resp.type = "original"
    /\ Cardinality({f.content_hash : f \in files}) = 2

\* C15: for content that exists as a File, only the names of the
\* FileReference rows decide the submission, whatever the original_filename
\* of any File: it is answered 409 "duplicate" exactly when a FileReference
\* row has the submitted name, and else its row is inserted and, the File
\* still existing at the commit, it is answered 201 "reference"; and no two
\* FileReference rows ever share a reference_name.
C15_DigestThenName ==
    /\ [](\A r1, r2 \in refs :
             r1.reference_name = r2.reference_name => r1 = r2)
    /\ [][\A p \in Procs :
             /\ (pc[p] = "reference_insert" /\ pc'[p] # pc[p])
                => LET taken == \E r \in refs : r.reference_name = req[p].name
                   IN  /\ taken <=> (/\ pc'[p] = "idle"
                                     /\ resp'.status = 409
                                     /\ resp'.type = "duplicate")
                       /\ ~ taken <=> pc'[p] = "reference_commit"
             /\ (/\ pc[p] = "reference_commit"
                 /\ pc'[p] = "idle"
                 /\ FileRows(req[p].file_pk) # {})
                => /\ resp'.status = 201
                   /\ resp'.type = "reference"
                   /\ \E r \in refs' \ refs :
                         /\ r.reference_name = req[p].name
                         /\ r.original_file = req[p].file_pk]_vars

\* The same bytes were uploaded three times under one name: the second
\* upload made a reference named like its File, the third was refused.
C15_Witness ==
    /\ resp.op = "create"
    /\ resp.status = 409
    /\ resp.error = "IntegrityError:reference_name"
    /\ \E f \in files, r \in refs :
          /\ r.original_file = f.id
          /\ r.reference_name = f.original_filename

\* C16: a deletion of a File answered 204 releases the blob of the deleted
\* row: the row's storage key is no longer in the blob store.
C16_BlobReleased ==
    [][\A p \in Procs :
          (/\ pc[p] = "destroy_delete"
           /\ pc'[p] = "idle"
           /\ resp'.status = 204)
          => \A f \in files \ files' : f.file \notin Keys(blobs')]_vars

\* C17: whenever a call of calculate_file_hash has ended, by returning a
\* digest or by raising the error of a read, the stream's position is the
\* one it had before the call.
C17_PositionRestored ==
    (stream.at = "idle" /\ stream.results # <<>>)
        => stream.pos = stream.start

\* A call begun in the middle of the content ended with the error of a read
\* that followed a successful one.
C17_Witness ==
    /\ stream.at = "idle"
    /\ stream.results # <<>>
    /\ stream.results[Len(stream.results)].raised
    /\ stream.results[Len(stream.results)].fed > 0
    /\ stream.start > 0
    /\ stream.start < Len(stream.data)

\* C18: every digest calculate_file_hash returns is the digest of the whole
\* content of the stream, whatever the position before the call; two calls
\* in a row on one stream return the same digest.
C18_DigestOfWholeContent ==
    /\ \A i \in DOMAIN stream.results :
          ~ stream.results[i].raised
             => stream.results[i].digest = sha256(0, stream.data)
    /\ \A i, j \in DOMAIN stream.results :
          (~ stream.results[i].raised /\ ~ stream.results[j].raised)
             => stream.results[i].digest = stream.results[j].digest

\* A stream read with read(4096) was hashed twice from a position past the
\* start of its content.
C18_Witness ==
    /\ Len(stream.results) = 2
    /\ ~ stream.results[1].raised
    /\ ~ stream.results[2].raised
    /\ ~ stream.chunks
    /\ stream.start > 0
    /\ Len(stream.data) > ChunkSize

\* C19: a call update_reference_count(delta) that read the count c and
\* whose UPDATE found the row with that count leaves, when it commits, the
\* row with reference_count max(1, c + delta) and with storage_saved
\* size * (that count - 1) when that count exceeds 1, else 0.
C19_AdjustedRow ==
    [][\A p \in Procs :
          (pc[p] = "adjust_return" /\ pc'[p] = "idle")
          => \A f \in FileRows(req[p].file_pk) :
                f.reference_count = req[p].current_count
                => LET c == f.reference_count
                       n == IF c + req[p].change > 1
                            THEN c + req[p].change ELSE 1
                   IN  \E g \in files' :
                          /\ g.id = f.id
                          /\ g.reference_count = n
                          /\ g.storage_saved =
                                IF n > 1 THEN f.size * (n - 1) ELSE 0]_vars

\* C20: when no request is in progress, the number of -1 adjustments
\* applied to a File row is the number of its FileReference rows that were
\* removed: each removal decrements once, also when two deletions of one
\* reference ran at once.
C20_OneDecrementPerRemoval ==
    Quiet => \A f \in files :
                Decrements(f.id) =
                    Cardinality({r \in hist.removed : r.original_file = f.id})

\* C21: under fair scheduling every request that has started ends with a
\* response: no interleaving of submissions, reference deletions and File
\* deletions leaves a handler waiting for a row lock for ever.
C21_EveryOperationFinishes ==
    \A p \in Procs :
        (pc[p] # "idle") ~> (pc[p] = "idle" /\ resp.proc = p)

\* A handler waits for the lock of a File row that another handler, itself
\* in the middle of its transaction, holds.
C21_Witness ==
    \E p \in Procs :
        /\ pc[p] \in {"urc_update", "reference_commit", "destroy_lock"}
        /\ ~ LockFree(p, req[p].file_pk)

\* C22: every File row's content_hash is the digest of the bytes stored for
\* it, and no step of the file endpoints, PUT and PATCH included, changes
\* the content_hash, the size or the stored bytes of a File row.
C22_ContentFixedAfterCreation ==
    /\ [](\A f \in files :
             /\ f.file \in Keys(blobs)
             /\ f.content_hash = calculate_file_hash(StoredBytes(blobs, f)))
    /\ [][\A f \in files, g \in files' :
             g.id = f.id
             => /\ g.content_hash = f.content_hash
                /\ g.size = f.size
                /\ StoredBytes(blobs', g) = StoredBytes(blobs, f)]_vars

====
